---- MODULE Spec2Model ----
(***************************************************************************)
(* A model of bip_scraper/scraper.py: the listing functions (fetch_rss,    *)
(* fetch_rejestr_zmian, fetch_html_list), their dispatcher fetch_source,   *)
(* the enrichment step fetch_entry_details and the orchestrator            *)
(* run_scraper.                                                            *)
(*                                                                         *)
(* Strings are abstracted to what the code looks at.  A URL or href is a   *)
(* record: its kind (what the string starts with), the directory and the   *)
(* page name it points to, the shape of its extension and whether it       *)
(* carries a fragment.  A title is its length plus a flag for the literal  *)
(* default "(bez tytulu)".  Collections that the code iterates (table      *)
(* rows, JSON rows, blocks, anchors, feed items) are read one element per  *)
(* step, each element drawn from a small universe when it is read.         *)
(***************************************************************************)
EXTENDS Integers, Sequences, FiniteSets, TLC

VARIABLES
    pc,          \* position of the running call
    src,         \* the source descriptor being processed (fetch_source's argument)
    user_agent,  \* scraper.user_agent of the configuration ("" when not set)
    page,        \* what fetch_rejestr_zmian keeps of the parsed listing page
    entries,     \* the local list `entries` of the running listing function
    seen,        \* the local set `seen` / `seen_urls`
    k,           \* number of elements the running loop has already read
    result,      \* the value fetch_source returned (<<>> until it returns)
    ran,         \* steps of the cascade that have been entered (history)
    requests,    \* the network requests issued so far (history)
    sources,     \* config["sources"] (run_scraper)
    done,        \* number of sources run_scraper has taken from the list
    all_entries, \* the list run_scraper returns
    expected,    \* the batches fetch_source returned to run_scraper (history)
    cur,         \* number of entries of the batch handed to fetch_entry_details
    unique_links, \* the local set `unique_links` of fetch_entry_details
    log,         \* the failures reported on stderr by run_scraper and
                 \* fetch_entry_details (lines 569, 572, 598)
    served,      \* the anchors of `candidates` that fetch_entry_details has
                 \* read, each with the answer to its download
    pdf_content, \* the document given to extract_text_from_pdf
    text,        \* the local `text` of extract_text_from_pdf
    tiers,       \* the extraction tiers extract_text_from_pdf has invoked
    server,      \* how the Ollama server answers each of its two endpoints
    calls,       \* the endpoints ollama_generate has posted to, in order
    outcome      \* what ollama_generate gave its caller

pdfVars == <<pdf_content, text, tiers>>
ollamaVars == <<server, calls, outcome>>
runVars ==
    <<sources, done, all_entries, expected, cur, unique_links, log, served,
      pdfVars, ollamaVars>>
vars ==
    <<pc, src, user_agent, page, entries, seen, k, result, ran, requests,
      sources, done, all_entries, expected, cur, unique_links, log, served,
      pdf_content, text, tiers, server, calls, outcome>>

(***************************************************************************)
(* Bounds of the model.                                                    *)
(***************************************************************************)
MaxRows == 2      \* elements a streamed collection holds at most
MaxTables == 1    \* <table> elements on a listing page at most
MaxCap == 2       \* largest max_entries value a source configures

(***************************************************************************)
(* Strings.                                                                *)
(***************************************************************************)
\* a page name is a number; name 0 stands for a path that contains
\* "rejestr-zmian"
\* lengths of stripped anchor texts, on both sides of each threshold
\* (5 for table rows and blocks, 10 for the link scan, 3 for plain lists)
TableTitleLens == {4, 7}
BlockTitleLens == {4, 7}
LinkTitleLens == {7, 12}
ListTitleLens == {0, 2, 4}

Str(kind, dir, name, ext, frag) ==
    [kind |-> kind, dir |-> dir, name |-> name, ext |-> ext, frag |-> frag]

\* "" , "#x", "javascript:...", "mailto:..."
EmptyStr == Str("empty", "root", 0, "plain", FALSE)
FragStr == Str("frag", "root", 0, "plain", TRUE)
JsStr == Str("js", "root", 0, "plain", FALSE)
MailtoStr == Str("mailto", "root", 0, "plain", FALSE)
\* "http://host/<dir>/<name>", "/<dir>/<name>", "<name>"
Http(dir, name) == Str("http", dir, name, "plain", FALSE)
RootRel(dir, name) == Str("root", dir, name, "plain", FALSE)
Rel(name) == Str("rel", "root", name, "plain", FALSE)

\* the hrefs an anchor of a listing page can carry: the four kinds the
\* filters are about, three spellings of http://host/sub/1, two of
\* http://host/root/1, a relative link to the registry itself and an
\* absolute link with a fragment
ListingHrefs ==
    {EmptyStr, FragStr, JsStr, MailtoStr}
    \cup {Http("sub", 1), RootRel("sub", 1), Rel(1)}
    \cup {Http("root", 1), RootRel("root", 1)}
    \cup {Rel(0)}
    \cup {Str("http", "sub", 1, "plain", TRUE)}

\* the hrefs of the anchors inside the title cells of a JSON row
DynHrefs ==
    {JsStr, Http("sub", 1), RootRel("sub", 1), RootRel("root", 1), Rel(1)}

\* the listing locator of every source: http://host/sub/rejestr-zmian
ListUrl == Http("sub", 0)

\* an absolute URL names its scheme
IsAbsolute(u) == u.kind \in {"http", "js", "mailto"}
StartsWithHttp(u) == u.kind = "http"
StartsWithSlash(u) == u.kind = "root"
StartsWithHash(u) == u.kind = "frag"
\* x in url.lower() for the substrings the filters look for
HasJavascript(u) == u.kind = "js"
HasMailto(u) == u.kind = "mailto"
HasHash(u) == u.frag
HasRejestrZmian(u) == u.kind \in {"http", "root", "rel"} /\ u.name = 0

\* urllib.parse.urljoin(base, href) for an absolute base
UrlJoin(base, href) ==
    CASE href.kind = "empty" -> base
      [] href.kind = "frag" -> [base EXCEPT !.frag = TRUE]
      [] href.kind \in {"js", "mailto", "http"} -> href
      [] href.kind = "root" -> [href EXCEPT !.kind = "http"]
      [] href.kind = "rel" -> [href EXCEPT !.kind = "http", !.dir = base.dir]

\* f"{scheme}://{netloc}{href}" for an href that starts with "/"
SiteRootJoin(href) == [href EXCEPT !.kind = "http"]

\* list_url.rsplit("/", 1)[0] + "/": the directory of the listing page
BaseUrl(list_url) == [list_url EXCEPT !.name = 0, !.frag = FALSE]

_normalize_list_url(base, href) ==
    IF href = EmptyStr \/ StartsWithHash(href) THEN EmptyStr
    ELSE IF StartsWithHttp(href) THEN href
    ELSE UrlJoin(base, href)

Title(len) == [len |-> len, dflt |-> FALSE]
\* the literal "(bez tytulu)"
DefaultTitle == [len |-> 12, dflt |-> TRUE]

\* raw: for a feed entry the date fields of the feed item (line 104); what
\* the other strategies store there is left out
BIPEntry(title, url, published, source_name, via) ==
    [title |-> title, url |-> url, published |-> published,
     source_name |-> source_name, attachments |-> <<>>, via |-> via,
     raw |-> "list_url"]

(***************************************************************************)
(* Source descriptors (dicts of the configuration).                        *)
(***************************************************************************)
DefaultMaxEntries == 10

\* rss_url / list_url: whether the key is set; rejestr_zmian: the flag;
\* max_set / max_entries: whether max_entries is set, and its value
SourcesNamed(names) ==
    {s \in [name : names, rss_url : BOOLEAN, list_url : BOOLEAN,
            rejestr_zmian : BOOLEAN, max_set : BOOLEAN, max_entries : 0..MaxCap] :
        /\ (~s.list_url => ~s.rejestr_zmian)
        /\ (s.rss_url => ~s.rejestr_zmian)
        /\ (~s.max_set => s.max_entries = 0)}

Sources == SourcesNamed({"A"})

\* source.get("name") or "BIP"
SourceName(s) == IF s.name = "" THEN "BIP" ELSE s.name
\* source.get("max_entries") or 10
EffectiveMax(s) ==
    IF s.max_set /\ s.max_entries # 0 THEN s.max_entries ELSE DefaultMaxEntries

\* headers = {"User-Agent": user_agent or "BIP-Scraper/1.0 (Python)"}
FetchHeader(ua) == IF ua # "" THEN ua ELSE "BIP-Scraper/1.0 (Python)"
Request(what, ua) == [what |-> what, ua |-> ua]

\* tables: number of <table>; tbodyRows: some table has a row inside its
\* tbody; headless: some table has a row and no thead; body: some table has
\* a row outside its thead; trs: number of <tr>; ajax: whether a script
\* names a remote-data URL
NoPage ==
    [tables |-> 0, tbodyRows |-> FALSE, headless |-> FALSE, body |-> FALSE,
     trs |-> 0, ajax |-> "none"]

\* a PDF: whether pypdf raises and the length of the stripped text it
\* extracts; whether the OCR tier raises, the length of its output and of
\* its stripped output
Pdf(draises, dlen, oraises, olen, ostripped) ==
    [digital_raises |-> draises, digital |-> dlen,
     ocr_raises |-> oraises, ocr |-> olen, ocr_stripped |-> ostripped]

\* a text: where it comes from and how long it is
Text(from, len) == [from |-> from, len |-> len, marker |-> FALSE]

\* no document is being read; line 472: text = ""
NoPdf == Pdf(FALSE, 0, FALSE, 0, 0)
NoExtraction == pdf_content = NoPdf /\ text = Text("digital", 0) /\ tiers = {}

\* how an endpoint of the Ollama server answers a POST: the HTTP status (0
\* when the connection fails and no response exists), whether the body of an
\* error response is JSON, and the text the body of a 200 response carries
Answer(status, json, body) == [status |-> status, json |-> json, body |-> body]

\* no call of ollama_generate is under way
NoServer == [generate |-> Answer(200, TRUE, ""), chat |-> Answer(200, TRUE, "")]
NoGeneration == server = NoServer /\ calls = <<>> /\ outcome = [how |-> "none"]

\* len(entries) >= max_entries (lines 215, 294, 332, 358, 425)
CapReachedLate(es, s) == Len(es) > EffectiveMax(s)
CapReached(es, s) == Len(es) >= EffectiveMax(s)

(***************************************************************************)
(* fetch_source: the dispatcher.                                           *)
(***************************************************************************)
Return(batch) ==
    /\ pc' = "returned"
    /\ result' = batch

FetchSource ==
    /\ pc = "fetch_source"
    /\ IF src.rss_url THEN pc' = "rss_fetch" /\ result' = result
       ELSE IF src.list_url
            THEN /\ pc' = IF src.rejestr_zmian THEN "rz_fetch" ELSE "hl_fetch"
                 /\ result' = result
            ELSE Return(<<>>)
    /\ UNCHANGED runVars
    /\ UNCHANGED <<src, user_agent, page, entries, seen, k, ran, requests>>

(***************************************************************************)
(* fetch_rejestr_zmian.                                                    *)
(***************************************************************************)
TableShapes ==
    {t \in [thead : BOOLEAN, nHead : 0..1, tbody : BOOLEAN, nBody : 0..MaxRows] :
        (t.nHead = 1 => t.thead)}

RECURSIVE SeqsUpTo(_, _)
SeqsUpTo(S, n) ==
    IF n = 0 THEN {<<>>}
    ELSE LET shorter == SeqsUpTo(S, n - 1)
         IN shorter \cup {Append(s, x) : s \in {q \in shorter : Len(q) = n - 1}, x \in S}

\* number of <tr> a table holds, header rows included
RowCount(t) == t.nHead + t.nBody

RECURSIVE TotalRows(_)
TotalRows(tabs) ==
    IF tabs = <<>> THEN 0 ELSE RowCount(Head(tabs)) + TotalRows(Tail(tabs))

IsEmptyTableTbodyOnly(tabs) ==
    \A i \in 1..Len(tabs) : ~(tabs[i].tbody /\ tabs[i].nBody > 0)
\* lines 161-170: is_empty_table stays True unless some table has a row in
\* its tbody, or has a row and no thead
IsEmptyTable(tabs) ==
    \A i \in 1..Len(tabs) :
        /\ ~(tabs[i].tbody /\ tabs[i].nBody > 0)
        /\ ~(RowCount(tabs[i]) > 0 /\ ~tabs[i].thead)

HasBodyRows(tabs) == \E i \in 1..Len(tabs) : tabs[i].nBody > 0
HasTbodyRows(tabs) == \E i \in 1..Len(tabs) : tabs[i].tbody /\ tabs[i].nBody > 0
HasHeadlessRows(tabs) == \E i \in 1..Len(tabs) : RowCount(tabs[i]) > 0 /\ ~tabs[i].thead

RzFetchFail ==
    /\ pc = "rz_fetch"
    /\ requests' = requests \cup {Request("listing", FetchHeader(user_agent))}
    /\ pc' = "raised"
    /\ UNCHANGED runVars
    /\ UNCHANGED <<src, user_agent, page, entries, seen, k, result, ran>>

\* lines 146-187: fetch and parse the page, look at the tables and, when
\* there is none or they are empty, scan the scripts for the ajax URL
RzFetchPage(W) ==
    /\ pc = "rz_fetch"
    /\ requests' = requests \cup {Request("listing", FetchHeader(user_agent))}
    /\ \E tabs \in W.tables, ajax \in {"none", "found"} :
          LET isEmpty == IsEmptyTable(tabs)
              scan == tabs = <<>> \/ isEmpty
          IN /\ page' = [tables |-> Len(tabs), tbodyRows |-> HasTbodyRows(tabs),
                         headless |-> HasHeadlessRows(tabs),
                         body |-> HasBodyRows(tabs),
                         trs |-> TotalRows(tabs), ajax |-> ajax]
             /\ ran' = IF scan THEN ran \cup {"scan"} ELSE ran
             /\ pc' = IF scan /\ ajax = "found" THEN "rz_ajax" ELSE "rz_static"
    /\ entries' = <<>>
    /\ seen' = {}
    /\ k' = 0
    /\ UNCHANGED runVars
    /\ UNCHANGED <<src, user_agent, result>>

\* lines 199-204: the header of the remote-data GET
AjaxHeader(ua) == IF ua # "" THEN ua ELSE "none"

\* lines 197-206 raise: the except clause at 256 swallows it
RzAjaxFail ==
    /\ pc = "rz_ajax"
    /\ requests' = requests \cup {Request("ajax", AjaxHeader(user_agent))}
    /\ ran' = ran \cup {"ajax"}
    /\ pc' = "rz_static"
    /\ UNCHANGED runVars
    /\ UNCHANGED <<src, user_agent, page, entries, seen, k, result>>

RzAjaxOk ==
    /\ pc = "rz_ajax"
    /\ requests' = requests \cup {Request("ajax", AjaxHeader(user_agent))}
    /\ ran' = ran \cup {"ajax"}
    /\ pc' = "rz_dyn"
    /\ k' = 0
    /\ UNCHANGED runVars
    /\ UNCHANGED <<src, user_agent, page, entries, seen, result>>

\* the rows of the JSON answer: not a dict (row.get raises), a dict with no
\* title, a title without an anchor, a title with an anchor
DynRows ==
    {[kind |-> "bad", href |-> EmptyStr, len |-> 0, date |-> FALSE],
     [kind |-> "blank", href |-> EmptyStr, len |-> 0, date |-> FALSE]}
    \cup [kind : {"text"}, href : {EmptyStr}, len : {7}, date : {TRUE}]
    \cup [kind : {"link"}, href : DynHrefs, len : {0, 7}, date : {TRUE}]

\* lines 228-240: title and URL of a row whose title cell is not empty
DynEntryUrl(row, list_url) ==
    IF row.kind = "link" /\ row.href # EmptyStr
    THEN IF StartsWithSlash(row.href) THEN SiteRootJoin(row.href) ELSE row.href
    ELSE list_url

DynEntry(row, list_url, source_name) ==
    BIPEntry(Title(row.len), DynEntryUrl(row, list_url),
             IF row.date THEN "text" ELSE "", source_name, "dynamic")

\* lines 214-251: one iteration of `for row in rows`
RzDynRow(W) ==
    /\ pc = "rz_dyn"
    /\ k < W.n
    /\ ~CapReached(entries, src)
    /\ \E row \in W.dyn :
          CASE row.kind = "bad" ->
                   /\ pc' = "rz_static"
                   /\ k' = 0
                   /\ entries' = entries
            [] row.kind = "blank" ->
                   /\ pc' = pc
                   /\ k' = k + 1
                   /\ entries' = entries
            [] OTHER ->
                   /\ pc' = pc
                   /\ k' = k + 1
                   /\ entries' = Append(entries, DynEntry(row, ListUrl, SourceName(src)))
    /\ UNCHANGED runVars
    /\ UNCHANGED <<src, user_agent, page, seen, result, ran, requests>>

\* lines 215-216 and 253-254: the loop ends (no more rows, or the cap is
\* reached) and the batch is returned when it is not empty
RzDynEnd ==
    /\ pc = "rz_dyn"
    /\ IF entries # <<>>
       THEN Return(entries) /\ k' = k
       ELSE pc' = "rz_static" /\ k' = 0 /\ result' = result
    /\ UNCHANGED runVars
    /\ UNCHANGED <<src, user_agent, page, entries, seen, ran, requests>>

\* a <tr>: without cells or without an anchor, or with its first anchor
Anchors(hrefs, lens, dates) ==
    {[anchor |-> FALSE, href |-> EmptyStr, len |-> 0, date |-> FALSE]}
    \cup [anchor : {TRUE}, href : hrefs, len : lens, date : dates]

\* the rows of the tables: each with a date cell, and one row without
TableRows ==
    Anchors(ListingHrefs, TableTitleLens, {TRUE})
    \cup Anchors({Http("root", 1)}, {7}, {FALSE})
\* the blocks: each with a date in its text
Blocks == Anchors(ListingHrefs, BlockTitleLens, {TRUE})
\* the anchors of the main content region
Links == [anchor : {TRUE}, href : ListingHrefs, len : LinkTitleLens, date : {FALSE}]

\* line 269: the filter of the table strategy
StaticRejects(url, seenUrls) ==
    url = EmptyStr \/ url \in seenUrls
        \/ HasJavascript(url) \/ HasMailto(url) \/ HasHash(url)

\* what a row of a table lacks for the table strategy to take it
Defects == {"no_anchor", "short_title", "no_date", "href_rejected", "url_seen"}
RowDefects(row, url, seenUrls) ==
    {d \in Defects :
        \/ d = "no_anchor" /\ ~row.anchor
        \/ d = "short_title" /\ row.anchor /\ row.len < 5
        \/ d = "no_date" /\ row.anchor /\ ~row.date
        \/ d = "href_rejected" /\ row.anchor /\ StaticRejects(url, {})
        \/ d = "url_seen" /\ row.anchor /\ url # EmptyStr /\ url \in seenUrls}

\* lines 260-295: one iteration of `for row in table.find_all("tr")`
RzStaticRow(W) ==
    /\ pc = "rz_static"
    /\ k < page.trs
    /\ \E row \in W.trs :
          LET url == _normalize_list_url(BaseUrl(ListUrl), row.href)
              skip == ~row.anchor \/ StaticRejects(url, seen) \/ row.len < 5
              e == BIPEntry(Title(row.len), url,
                            IF row.date THEN "text" ELSE "None",
                            SourceName(src), "static")
          IN /\ IF skip
                THEN /\ UNCHANGED <<entries, seen, result>>
                     /\ pc' = pc
                     /\ k' = k + 1
                ELSE /\ entries' = Append(entries, e)
                     /\ seen' = seen \cup {url}
                     /\ k' = k + 1
                     /\ IF CapReached(entries', src)
                        THEN Return(entries')
                        ELSE pc' = pc /\ result' = result
             /\ ran' = ran \cup {"static"}
                           \cup (RowDefects(row, url, seen) \cap W.history)
    /\ UNCHANGED runVars
    /\ UNCHANGED <<src, user_agent, page, requests>>

\* lines 297-299: after the tables, return what was collected
RzStaticEnd ==
    /\ pc = "rz_static"
    /\ k = page.trs
    /\ IF entries # <<>>
       THEN Return(entries) /\ k' = k
       ELSE pc' = "rz_block" /\ k' = 0 /\ result' = result
    /\ UNCHANGED runVars
    /\ UNCHANGED <<src, user_agent, page, entries, seen, ran, requests>>

\* line 310: the filter of the block strategy
BlockRejects(url, href, seenUrls) ==
    url = EmptyStr \/ url \in seenUrls \/ HasJavascript(href)

\* lines 304-333: one iteration of `for block in soup.select(...)`
RzBlock(W) ==
    /\ pc = "rz_block"
    /\ k < W.n
    /\ \E b \in W.blocks :
          LET url == _normalize_list_url(BaseUrl(ListUrl), b.href)
              skip == ~b.anchor \/ BlockRejects(url, b.href, seen) \/ b.len < 5
              e == BIPEntry(Title(b.len), url,
                            IF b.date THEN "text" ELSE "None",
                            SourceName(src), "block")
          IN IF skip
             THEN /\ UNCHANGED <<entries, seen, result>>
                  /\ pc' = pc
                  /\ k' = k + 1
             ELSE /\ entries' = Append(entries, e)
                  /\ seen' = seen \cup {url}
                  /\ k' = k + 1
                  /\ IF CapReached(entries', src)
                     THEN Return(entries')
                     ELSE pc' = pc /\ result' = result
    /\ ran' = ran \cup {"block"}
    /\ UNCHANGED runVars
    /\ UNCHANGED <<src, user_agent, page, requests>>

\* lines 335-337: the block loop is over and the link scan begins
RzBlockEnd ==
    /\ pc = "rz_block"
    /\ pc' = "rz_link"
    /\ k' = 0
    /\ UNCHANGED runVars
    /\ UNCHANGED <<src, user_agent, page, entries, seen, result, ran, requests>>

\* line 341: the filter of the link scan
LinkRejects(url, seenUrls) ==
    url = EmptyStr \/ url \in seenUrls \/ HasJavascript(url) \/ HasMailto(url)
        \/ HasHash(url) \/ HasRejestrZmian(url)

\* lines 338-359: one iteration of `for link in main.find_all("a", href=True)`
RzLink(W) ==
    /\ pc = "rz_link"
    /\ k < W.n
    /\ \E a \in W.links :
          LET url == _normalize_list_url(BaseUrl(ListUrl), a.href)
              skip == LinkRejects(url, seen) \/ a.len < 10
              e == BIPEntry(Title(a.len), url, "None", SourceName(src), "link")
          IN IF skip
             THEN /\ UNCHANGED <<entries, seen, result>>
                  /\ pc' = pc
                  /\ k' = k + 1
             ELSE /\ entries' = Append(entries, e)
                  /\ seen' = seen \cup {url}
                  /\ k' = k + 1
                  /\ IF CapReached(entries', src)
                     THEN Return(entries')
                     ELSE pc' = pc /\ result' = result
    /\ ran' = ran \cup {"link"}
    /\ UNCHANGED runVars
    /\ UNCHANGED <<src, user_agent, page, requests>>

\* line 361
RzLinkEnd ==
    /\ pc = "rz_link"
    /\ Return(entries)
    /\ UNCHANGED runVars
    /\ UNCHANGED <<src, user_agent, page, entries, seen, k, ran, requests>>

FetchRejestrZmian(W) ==
    \/ RzFetchFail \/ RzFetchPage(W) \/ RzAjaxFail \/ RzAjaxOk
    \/ RzDynRow(W) \/ RzDynEnd \/ RzStaticRow(W) \/ RzStaticEnd
    \/ RzBlock(W) \/ RzBlockEnd \/ RzLink(W) \/ RzLinkEnd

(***************************************************************************)
(* fetch_rss.                                                              *)
(***************************************************************************)
\* the link of a feed item: none, absolute, relative
FeedLinks == {EmptyStr, Http("sub", 1), Rel(1)}

\* the date fields of a feed item: published_parsed / updated_parsed are
\* "ok" (a time tuple), "bad" (datetime(...) raises TypeError) or "none";
\* published / updated tell whether the raw text is there
FeedDate(pp, p, up, u) ==
    [published_parsed |-> pp, published |-> p, updated_parsed |-> up, updated |-> u]

FeedDates ==
    {FeedDate("ok", TRUE, "none", FALSE),
     FeedDate("bad", TRUE, "none", FALSE),
     FeedDate("none", FALSE, "ok", TRUE),
     FeedDate("none", TRUE, "none", FALSE),
     FeedDate("none", FALSE, "none", FALSE)}

FeedItems == [link : FeedLinks, title : BOOLEAN, date : FeedDates]

\* lines 84-94
FeedPublished(d) ==
    IF d.published_parsed # "none"
    THEN IF d.published_parsed = "ok" THEN "iso"
         ELSE IF d.published THEN "text" ELSE ""
    ELSE IF d.updated_parsed # "none"
    THEN IF d.updated_parsed = "ok" THEN "iso"
         ELSE IF d.updated THEN "text" ELSE ""
    ELSE "None"

\* lines 76-78
FeedLink(base, link) ==
    IF link # EmptyStr /\ ~StartsWithHttp(link) THEN UrlJoin(base, link) ELSE link

\* lines 96-106
FeedEntry(item, base, source_name) ==
    [BIPEntry(IF item.title THEN Title(7) ELSE DefaultTitle,
              FeedLink(base, item.link), FeedPublished(item.date),
              source_name, "feed") EXCEPT !.raw = item.date]

RssFetchFail ==
    /\ pc = "rss_fetch"
    /\ requests' = requests \cup {Request("feed", FetchHeader(user_agent))}
    /\ pc' = "raised"
    /\ UNCHANGED runVars
    /\ UNCHANGED <<src, user_agent, page, entries, seen, k, result, ran>>

RssFetchOk ==
    /\ pc = "rss_fetch"
    /\ requests' = requests \cup {Request("feed", FetchHeader(user_agent))}
    /\ pc' = "rss_loop"
    /\ entries' = <<>>
    /\ k' = 0
    /\ UNCHANGED runVars
    /\ UNCHANGED <<src, user_agent, page, seen, result, ran>>

\* lines 73-106: one iteration of `for i, e in enumerate(feed.entries)`
RssItem(W) ==
    /\ pc = "rss_loop"
    /\ k < W.n
    /\ k < EffectiveMax(src)
    /\ \E item \in W.items :
          entries' = Append(entries, FeedEntry(item, ListUrl, SourceName(src)))
    /\ k' = k + 1
    /\ UNCHANGED runVars
    /\ UNCHANGED <<pc, src, user_agent, page, seen, result, ran, requests>>

\* lines 74-75 and 107
RssEnd ==
    /\ pc = "rss_loop"
    /\ Return(entries)
    /\ UNCHANGED runVars
    /\ UNCHANGED <<src, user_agent, page, entries, seen, k, ran, requests>>

FetchRss(W) == RssFetchFail \/ RssFetchOk \/ RssItem(W) \/ RssEnd

(***************************************************************************)
(* fetch_html_list.                                                        *)
(***************************************************************************)
\* the elements the selectors match: without an anchor, or with one
ListElements == Anchors(ListingHrefs, ListTitleLens, {FALSE})

\* lines 405-409: the filter of the plain list
ListRejects(url, seenUrls) ==
    url = EmptyStr \/ url \in seenUrls
        \/ HasJavascript(url) \/ HasMailto(url) \/ HasHash(url)

\* line 410
ListTitle(len) == IF len = 0 THEN DefaultTitle ELSE Title(len)

HlFetchFail ==
    /\ pc = "hl_fetch"
    /\ requests' = requests \cup {Request("listing", FetchHeader(user_agent))}
    /\ pc' = "raised"
    /\ UNCHANGED runVars
    /\ UNCHANGED <<src, user_agent, page, entries, seen, k, result, ran>>

HlFetchOk ==
    /\ pc = "hl_fetch"
    /\ requests' = requests \cup {Request("listing", FetchHeader(user_agent))}
    /\ pc' = "hl_loop"
    /\ entries' = <<>>
    /\ seen' = {}
    /\ k' = 0
    /\ UNCHANGED runVars
    /\ UNCHANGED <<src, user_agent, page, result, ran>>

\* lines 399-426: one iteration of `for el in soup.select(selector)`
HlElement(W) ==
    /\ pc = "hl_loop"
    /\ k < W.n
    /\ \E el \in W.els :
          LET url == _normalize_list_url(BaseUrl(ListUrl), el.href)
              title == ListTitle(el.len)
              skip == ~el.anchor \/ el.href = EmptyStr \/ ListRejects(url, seen)
                          \/ title.len < 3
              e == BIPEntry(title, url, "None", SourceName(src), "list")
          IN IF skip
             THEN /\ UNCHANGED <<entries, seen, result>>
                  /\ pc' = pc
                  /\ k' = k + 1
             ELSE /\ entries' = Append(entries, e)
                  /\ seen' = seen \cup {url}
                  /\ k' = k + 1
                  /\ IF CapReached(entries', src)
                     THEN Return(entries')
                     ELSE pc' = pc /\ result' = result
    /\ UNCHANGED runVars
    /\ UNCHANGED <<src, user_agent, page, ran, requests>>

\* line 428
HlEnd ==
    /\ pc = "hl_loop"
    /\ Return(entries)
    /\ UNCHANGED runVars
    /\ UNCHANGED <<src, user_agent, page, entries, seen, k, ran, requests>>

FetchHtmlList(W) == HlFetchFail \/ HlFetchOk \/ HlElement(W) \/ HlEnd

(***************************************************************************)
(* One call of fetch_source.                                               *)
(***************************************************************************)
Init ==
    /\ pc = "fetch_source"
    /\ src \in Sources
    /\ user_agent = ""
    /\ page = NoPage
    /\ entries = <<>>
    /\ seen = {}
    /\ k = 0
    /\ result = <<>>
    /\ ran = {}
    /\ requests = {}
    /\ sources = <<>>
    /\ done = 0
    /\ all_entries = <<>>
    /\ expected = <<>>
    /\ cur = 0
    /\ unique_links = {}
    /\ log = {}
    /\ served = <<>>
    /\ NoGeneration
    /\ NoExtraction

\* what the network serves to one call: every shape of page and feed
Wide ==
    [n |-> MaxRows, tables |-> SeqsUpTo(TableShapes, MaxTables), dyn |-> DynRows,
     trs |-> TableRows, blocks |-> Blocks, links |-> Links,
     items |-> FeedItems, els |-> ListElements, history |-> {}]

Next ==
    \/ FetchSource
    \/ FetchRss(Wide)
    \/ FetchRejestrZmian(Wide)
    \/ FetchHtmlList(Wide)

Spec == Init /\ [][Next]_vars

\* one call of fetch_source on a registry whose page holds tables: rows with
\* every spelling of two pages and two rejected hrefs, with and without a
\* date cell; the defects of the rows that were read are kept in `ran`
RegistrySources == {s \in Sources : s.list_url /\ s.rejestr_zmian}
RegistryRows ==
    Anchors({Http("sub", 1), RootRel("sub", 1), Http("root", 1), MailtoStr, FragStr},
            TableTitleLens, BOOLEAN)
RegistryTables ==
    [n |-> MaxRows, history |-> Defects,
     tables |-> SeqsUpTo(TableShapes, MaxTables) \ {<<>>},
     dyn |-> {[kind |-> "bad", href |-> EmptyStr, len |-> 0, date |-> FALSE],
              [kind |-> "link", href |-> RootRel("sub", 1), len |-> 7, date |-> TRUE]},
     trs |-> RegistryRows,
     blocks |-> Anchors({Http("sub", 1)}, {7}, {TRUE}),
     links |-> [anchor : {TRUE}, href : {Http("sub", 1)}, len : {12}, date : {FALSE}]]

InitTable ==
    /\ pc = "fetch_source"
    /\ src \in RegistrySources
    /\ user_agent = ""
    /\ page = NoPage
    /\ entries = <<>>
    /\ seen = {}
    /\ k = 0
    /\ result = <<>>
    /\ ran = {}
    /\ requests = {}
    /\ sources = <<>>
    /\ done = 0
    /\ all_entries = <<>>
    /\ expected = <<>>
    /\ cur = 0
    /\ unique_links = {}
    /\ log = {}
    /\ served = <<>>
    /\ NoGeneration
    /\ NoExtraction

NextTable ==
    \/ FetchSource
    \/ FetchRejestrZmian(RegistryTables)

SpecTable == InitTable /\ [][NextTable]_vars

(***************************************************************************)
(* extract_text_from_pdf.                                                  *)
(***************************************************************************)
MinDigitalLen == 50
TextCap == 5000

\* line 485: len(text) < 50
NeedsOcrAtMost(t) == t.len <= MinDigitalLen
NeedsOcr(t) == t.len < MinDigitalLen

\* lines 472-503, as one evaluation
extract_text_from_pdf(pdf) ==
    LET digital == IF pdf.digital_raises THEN Text("digital", 0)
                   ELSE Text("digital", pdf.digital)
    IN IF NeedsOcr(digital)
       THEN IF pdf.ocr_raises
            THEN IF digital.len = 0 THEN Text("placeholder", 30) ELSE digital
            ELSE IF pdf.ocr_stripped > digital.len THEN Text("ocr", pdf.ocr)
                 ELSE digital
       ELSE digital

\* the documents given to one call: digital texts on both sides of the
\* threshold, OCR outputs with and without surrounding white space (every
\* page adds a line break, line 494; no page gives the empty string)
DigitalLens == {0, 40, 49, 50, 200}
OcrStrippedLens == {0, 40, 41, 120}
OcrPads == {0, 1, 10}
OcrOutputs ==
    {[stripped |-> o, whole |-> o + p] :
        o \in OcrStrippedLens, p \in OcrPads} \ {[stripped |-> o, whole |-> o] :
                                                   o \in OcrStrippedLens \ {0}}
Pdfs ==
    {Pdf(dr, IF dr THEN 0 ELSE d, orr,
         IF orr THEN 0 ELSE out.whole, IF orr THEN 0 ELSE out.stripped) :
        dr \in BOOLEAN, d \in DigitalLens, orr \in BOOLEAN, out \in OcrOutputs}

\* lines 473-480: pypdf reads the document
PdfDigitalOk ==
    /\ pc = "extract"
    /\ ~pdf_content.digital_raises
    /\ text' = Text("digital", pdf_content.digital)
    /\ tiers' = tiers \cup {"digital"}
    /\ pc' = "pdf_check"
    /\ UNCHANGED <<src, user_agent, page, entries, seen, k, result, ran, requests>>
    /\ UNCHANGED <<sources, done, all_entries, expected, cur, unique_links, log, served, ollamaVars>>
    /\ UNCHANGED pdf_content

\* lines 481-482: pypdf raises; text is still ""
PdfDigitalRaises ==
    /\ pc = "extract"
    /\ pdf_content.digital_raises
    /\ tiers' = tiers \cup {"digital"}
    /\ pc' = "pdf_check"
    /\ UNCHANGED <<src, user_agent, page, entries, seen, k, result, ran, requests>>
    /\ UNCHANGED <<sources, done, all_entries, expected, cur, unique_links, log, served, ollamaVars>>
    /\ UNCHANGED <<pdf_content, text>>

\* line 485 is false; line 503 returns text
PdfOcrSkipped ==
    /\ pc = "pdf_check"
    /\ ~NeedsOcr(text)
    /\ pc' = "pdf_return"
    /\ UNCHANGED <<src, user_agent, page, entries, seen, k, result, ran, requests>>
    /\ UNCHANGED runVars

\* lines 485-497 and 503: the OCR tier runs to its end
PdfOcrOk ==
    /\ pc = "pdf_check"
    /\ NeedsOcr(text)
    /\ ~pdf_content.ocr_raises
    /\ tiers' = tiers \cup {"ocr"}
    /\ text' = IF pdf_content.ocr_stripped > text.len
               THEN Text("ocr", pdf_content.ocr) ELSE text
    /\ pc' = "pdf_return"
    /\ UNCHANGED <<src, user_agent, page, entries, seen, k, result, ran, requests>>
    /\ UNCHANGED <<sources, done, all_entries, expected, cur, unique_links, log, served, ollamaVars>>
    /\ UNCHANGED pdf_content

PdfOcrReraises ==
    /\ pc = "pdf_check"
    /\ NeedsOcr(text)
    /\ pdf_content.ocr_raises
    /\ tiers' = tiers \cup {"ocr"}
    /\ pc' = "raised"
    /\ UNCHANGED <<src, user_agent, page, entries, seen, k, result, ran, requests>>
    /\ UNCHANGED <<sources, done, all_entries, expected, cur, unique_links, log, served, ollamaVars>>
    /\ UNCHANGED <<pdf_content, text>>

\* lines 485-503: the OCR tier raises; the value returned is the
\* placeholder of line 501 when text is empty, text otherwise
PdfOcrRaises ==
    /\ pc = "pdf_check"
    /\ NeedsOcr(text)
    /\ pdf_content.ocr_raises
    /\ tiers' = tiers \cup {"ocr"}
    /\ text' = IF text.len = 0 THEN Text("placeholder", 30) ELSE text
    /\ pc' = "pdf_return"
    /\ UNCHANGED <<src, user_agent, page, entries, seen, k, result, ran, requests>>
    /\ UNCHANGED <<sources, done, all_entries, expected, cur, unique_links, log, served, ollamaVars>>
    /\ UNCHANGED pdf_content

ExtractTextFromPdf ==
    \/ PdfDigitalOk \/ PdfDigitalRaises
    \/ PdfOcrSkipped \/ PdfOcrOk \/ PdfOcrRaises

InitPdf ==
    /\ pc = "extract"
    /\ pdf_content \in Pdfs
    /\ text = Text("digital", 0)
    /\ tiers = {}
    /\ src = CHOOSE s \in Sources : TRUE
    /\ user_agent = ""
    /\ page = NoPage
    /\ entries = <<>>
    /\ seen = {}
    /\ k = 0
    /\ result = <<>>
    /\ ran = {}
    /\ requests = {}
    /\ sources = <<>>
    /\ done = 0
    /\ all_entries = <<>>
    /\ expected = <<>>
    /\ cur = 0
    /\ unique_links = {}
    /\ log = {}
    /\ served = <<>>
    /\ NoGeneration

SpecPdf == InitPdf /\ [][ExtractTextFromPdf]_vars

\* line 560: raw_text[:5000] + ("..." if len(raw_text) > 5000 else "")
TrimmedFromCap(raw_text) ==
    [raw_text EXCEPT !.len = IF raw_text.len >= TextCap THEN TextCap ELSE raw_text.len,
                     !.marker = raw_text.len >= TextCap]
Trimmed(raw_text) ==
    [raw_text EXCEPT !.len = IF raw_text.len > TextCap THEN TextCap ELSE raw_text.len,
                     !.marker = raw_text.len > TextCap]

(***************************************************************************)
(* fetch_entry_details.                                                    *)
(***************************************************************************)
\* url.lower().endswith(".pdf") and "pdf" in href.lower()
EndsWithPdf(u) == u.ext = "pdf" /\ ~u.frag
ContainsPdf(u) == u.ext \in {"pdf", "haspdf"}
\* requests.get sends a request only for an http(s) URL
Fetchable(u) == u.kind = "http"

\* an anchor of the detail page: its href, its text ("" / "keyword": it
\* holds one of the attachment words / "other") and whether it has a title
DetailAnchor(href, label, title) == [href |-> href, text |-> label, title |-> title]

\* the answer to a download: an exception, or a status, a content type and
\* the document
Download(raises, status, ctype, pdf, size) ==
    [raises |-> raises, status |-> status, ctype |-> ctype, pdf |-> pdf, size |-> size]

\* lines 541-546
IsCandidate(a, full_url) ==
    EndsWithPdf(full_url) \/ (a.text = "keyword" /\ ContainsPdf(a.href))

\* line 563: text or link_el.get("title") or "Zalacznik"
AttachmentName(a) ==
    IF a.text # "" THEN a.text ELSE IF a.title THEN "title" ELSE "Zalacznik"

\* lines 557-567
Attachment(a, full_url, r) ==
    [name |-> AttachmentName(a), url |-> full_url,
     text_content |-> Trimmed(extract_text_from_pdf(r.pdf)), size |-> r.size]

\* line 562: entry.attachments.append(...)
AppendedInFront(attachments, a) == <<a>> \o attachments
Appended(attachments, a) == Append(attachments, a)

\* line 557: status 200 and a Content-Type that names application/pdf
AcceptedAnyType(r) == ~r.raises /\ r.status = 200
Accepted(r) == ~r.raises /\ r.status = 200 /\ r.ctype = "application/pdf"

\* lines 553-569: the try around one download; after its except clause the
\* loop goes on with the next anchor
AfterFailedDownloadLeave == "enrich"
AfterFailedDownload == "det_loop"

\* what the message is about and the name or url it prints
Logged(what, id) == [what |-> what, id |-> id]

DetailsSkipPdfAfterFetch ==
    /\ pc = "details"
    /\ EndsWithPdf(result[cur].url)
    /\ requests' = requests \cup {Request("detail", FetchHeader(user_agent))}
    /\ pc' = "enrich"
    /\ UNCHANGED <<src, user_agent, page, entries, seen, k, result, ran>>
    /\ UNCHANGED runVars

\* lines 516-517: a direct link to a file is left alone
DetailsSkipPdf ==
    /\ pc = "details"
    /\ EndsWithPdf(result[cur].url)
    /\ pc' = "enrich"
    /\ UNCHANGED <<src, user_agent, page, entries, seen, k, result, ran, requests>>
    /\ UNCHANGED runVars

\* lines 520-521 raise: the except clause at 571 swallows it
DetailsFetchFail ==
    /\ pc = "details"
    /\ ~EndsWithPdf(result[cur].url)
    /\ requests' = IF Fetchable(result[cur].url)
                   THEN requests \cup {Request("detail", FetchHeader(user_agent))}
                   ELSE requests
    /\ log' = log \cup {Logged("details", result[cur].url)}
    /\ pc' = "enrich"
    /\ UNCHANGED <<src, user_agent, page, entries, seen, k, result, ran>>
    /\ UNCHANGED <<sources, done, all_entries, expected, cur, unique_links>>
    /\ UNCHANGED <<served, pdfVars, ollamaVars>>

\* lines 520-532
DetailsFetchOk ==
    /\ pc = "details"
    /\ ~EndsWithPdf(result[cur].url)
    /\ Fetchable(result[cur].url)
    /\ requests' = requests \cup {Request("detail", FetchHeader(user_agent))}
    /\ pc' = "det_loop"
    /\ k' = 0
    /\ unique_links' = {}
    /\ UNCHANGED <<src, user_agent, page, entries, seen, result, ran>>
    /\ served' = <<>>
    /\ UNCHANGED <<sources, done, all_entries, expected, cur, log>>
    /\ UNCHANGED <<pdfVars, ollamaVars>>

\* lines 534-569: one iteration of `for link_el in candidates`
DetailsAnchor(W) ==
    /\ pc = "det_loop"
    /\ k < W.n
    /\ \E a \in W.anchors, r \in W.downloads :
          LET full_url == UrlJoin(result[cur].url, a.href)
              take == IsCandidate(a, full_url) /\ full_url \notin unique_links
          IN /\ unique_links' = IF take THEN unique_links \cup {full_url}
                                ELSE unique_links
             /\ requests' = IF take /\ Fetchable(full_url)
                            THEN requests \cup {Request("download", FetchHeader(user_agent))}
                            ELSE requests
             /\ result' = IF take /\ Fetchable(full_url) /\ Accepted(r)
                          THEN [result EXCEPT ![cur].attachments =
                                    Appended(@, Attachment(a, full_url, r))]
                          ELSE result
             /\ log' = IF take /\ (~Fetchable(full_url) \/ r.raises)
                       THEN log \cup {Logged("attachment", full_url)}
                       ELSE log
             /\ served' = Append(served, [anchor |-> a, answer |-> r])
             /\ pc' = IF take /\ (~Fetchable(full_url) \/ r.raises)
                      THEN AfterFailedDownload ELSE "det_loop"
    /\ k' = k + 1
    /\ UNCHANGED <<src, user_agent, page, entries, seen, ran>>
    /\ UNCHANGED <<sources, done, all_entries, expected, cur>>
    /\ UNCHANGED <<pdfVars, ollamaVars>>

\* the loop is over: fetch_entry_details returns
DetailsEnd ==
    /\ pc = "det_loop"
    /\ pc' = "enrich"
    /\ served' = <<>>
    /\ UNCHANGED <<src, user_agent, page, entries, seen, k, result, ran, requests>>
    /\ UNCHANGED <<sources, done, all_entries, expected, cur, unique_links, log>>
    /\ UNCHANGED <<pdfVars, ollamaVars>>

FetchEntryDetails(W) ==
    \/ DetailsSkipPdf \/ DetailsFetchFail \/ DetailsFetchOk
    \/ DetailsAnchor(W) \/ DetailsEnd

\* one call of fetch_entry_details: the entries it can be given, the
\* anchors of the detail page and the answers to the downloads
MaxAnchors == 2   \* anchors a detail page holds at most

TextPdf == Pdf(FALSE, 200, FALSE, 0, 0)
PdfHref == Str("rel", "root", 1, "pdf", FALSE)

DetailEntries ==
    {BIPEntry(Title(7), u, "None", "A", "list") :
        u \in {Http("sub", 1), Str("http", "sub", 1, "pdf", FALSE), Rel(1), EmptyStr}}

\* "1.pdf" and "http://host/sub/1.pdf" (one document under two spellings),
\* "/sub/3.pdf?v=1", "mailto:x@y.pdf" and "http://host/sub/4"
DetailAnchors ==
    {DetailAnchor(PdfHref, "other", FALSE),
     DetailAnchor(Str("http", "sub", 1, "pdf", FALSE), "", TRUE),
     DetailAnchor(Str("root", "sub", 3, "haspdf", FALSE), "keyword", FALSE),
     DetailAnchor(Str("root", "sub", 3, "haspdf", FALSE), "other", FALSE),
     DetailAnchor(Http("sub", 4), "keyword", FALSE),
     DetailAnchor(Str("mailto", "root", 0, "pdf", FALSE), "", FALSE)}

\* documents whose text is shorter than, as long as and longer than the cap
PdfTextLens == {400, 5000, 6000}
Downloads ==
    {Download(TRUE, 0, "", NoPdf, 0),
     Download(FALSE, 404, "application/pdf", NoPdf, 1),
     Download(FALSE, 200, "text/html", NoPdf, 1)}
    \cup {Download(FALSE, 200, "application/pdf", Pdf(FALSE, n, FALSE, 0, 0), 1) :
            n \in PdfTextLens}

WideDetails ==
    [n |-> MaxAnchors, anchors |-> DetailAnchors, downloads |-> Downloads]

InitDetails ==
    /\ pc = "details"
    /\ result \in {<<e>> : e \in DetailEntries}
    /\ cur = 1
    /\ src = CHOOSE s \in Sources : TRUE
    /\ user_agent = ""
    /\ page = NoPage
    /\ entries = <<>>
    /\ seen = {}
    /\ k = 0
    /\ ran = {}
    /\ requests = {}
    /\ sources = <<>>
    /\ done = 0
    /\ all_entries = <<>>
    /\ expected = <<>>
    /\ unique_links = {}
    /\ log = {}
    /\ served = <<>>
    /\ NoGeneration
    /\ NoExtraction

SpecDetails == InitDetails /\ [][FetchEntryDetails(WideDetails)]_vars

(***************************************************************************)
(* run_scraper.                                                            *)
(***************************************************************************)
MaxSources == 2   \* sources a configuration lists at most
RunRows == 1      \* elements a collection holds at most during a run

SourceNames == <<"A", "B", "C", "D">>

\* lines 583-585: the next source of the list, or line 599
RunNext ==
    /\ pc = "run"
    /\ IF done < Len(sources)
       THEN /\ done' = done + 1
            /\ src' = sources[done + 1]
            /\ pc' = "fetch_source"
       ELSE /\ pc' = "done"
            /\ UNCHANGED <<done, src>>
    /\ UNCHANGED <<user_agent, page, entries, seen, k, result, ran, requests>>
    /\ UNCHANGED <<sources, all_entries, expected, cur, unique_links, log>>
    /\ UNCHANGED <<served, pdfVars, ollamaVars>>

\* line 585: fetch_source returned its batch
RunReturned ==
    /\ pc = "returned"
    /\ expected' = expected \o result
    /\ cur' = 0
    /\ pc' = "enrich"
    /\ UNCHANGED <<src, user_agent, page, entries, seen, k, result, ran, requests>>
    /\ UNCHANGED <<sources, done, all_entries, unique_links, log>>
    /\ UNCHANGED <<served, pdfVars, ollamaVars>>

\* lines 589-591: the next entry of the batch goes to fetch_entry_details
RunDetails ==
    /\ pc = "enrich"
    /\ cur < Len(result)
    /\ cur' = cur + 1
    /\ pc' = "details"
    /\ UNCHANGED <<src, user_agent, page, entries, seen, k, result, ran, requests>>
    /\ UNCHANGED <<sources, done, all_entries, expected, unique_links, log>>
    /\ UNCHANGED <<served, pdfVars, ollamaVars>>

\* line 595: all_entries.extend(entries); the locals of the iteration die
RunExtend ==
    /\ pc = "enrich"
    /\ cur = Len(result)
    /\ all_entries' = all_entries \o result
    /\ pc' = "run"
    /\ page' = NoPage
    /\ entries' = <<>>
    /\ seen' = {}
    /\ k' = 0
    /\ result' = <<>>
    /\ ran' = {}
    /\ cur' = 0
    /\ unique_links' = {}
    /\ UNCHANGED <<src, user_agent, requests, sources, done, expected, log>>
    /\ UNCHANGED <<served, pdfVars, ollamaVars>>

RunCatchReraise ==
    /\ pc = "raised"
    /\ pc' = "crashed"
    /\ UNCHANGED <<src, user_agent, page, entries, seen, k, result, ran, requests>>
    /\ UNCHANGED runVars

\* lines 596-598: the source's exception is logged and the loop goes on
RunCatch ==
    /\ pc = "raised"
    /\ pc' = "run"
    /\ page' = NoPage
    /\ entries' = <<>>
    /\ seen' = {}
    /\ k' = 0
    /\ result' = <<>>
    /\ ran' = {}
    /\ cur' = 0
    /\ unique_links' = {}
    /\ log' = log \cup {Logged("source", SourceName(src))}
    /\ UNCHANGED <<src, user_agent, requests, sources, done, all_entries, expected>>
    /\ UNCHANGED <<served, pdfVars, ollamaVars>>

RunScraper == RunNext \/ RunReturned \/ RunDetails \/ RunExtend \/ RunCatch

\* the source descriptors of a configuration: a feed, a registry, a plain
\* list and a descriptor without locator, named by their place in the list
RunSourceAt(n) ==
    {s \in SourcesNamed({SourceNames[n]}) :
        ~s.max_set /\ ~(s.rss_url /\ s.list_url)}

RECURSIVE Configs(_)
Configs(n) ==
    IF n = 0 THEN {<<>>}
    ELSE LET shorter == Configs(n - 1)
         IN shorter \cup
            {Append(c, s) : c \in {q \in shorter : Len(q) = n - 1}, s \in RunSourceAt(n)}

\* what the network serves during a run: a few pages of each shape
ShellTable == [thead |-> TRUE, nHead |-> 1, tbody |-> TRUE, nBody |-> 0]
BodyTable == [thead |-> TRUE, nHead |-> 1, tbody |-> TRUE, nBody |-> 1]

Narrow ==
    [n |-> RunRows, history |-> {},
     tables |-> {<<ShellTable>>, <<BodyTable>>},
     dyn |-> {[kind |-> "bad", href |-> EmptyStr, len |-> 0, date |-> FALSE],
              [kind |-> "link", href |-> RootRel("sub", 1), len |-> 7, date |-> TRUE]},
     trs |-> Anchors({Http("sub", 1)}, {7}, {TRUE}),
     blocks |-> Anchors({Http("sub", 1)}, {7}, {TRUE}),
     links |-> [anchor : {TRUE}, href : {Http("sub", 1)}, len : {12}, date : {FALSE}],
     items |-> [link : {EmptyStr, Str("http", "sub", 1, "pdf", FALSE)}, title : {TRUE},
                date : {FeedDate("ok", TRUE, "none", FALSE)}],
     els |-> Anchors({Http("sub", 1)}, {4}, {FALSE}),
     anchors |-> {DetailAnchor(PdfHref, "other", FALSE)},
     downloads |-> {Download(TRUE, 0, "", TextPdf, 0),
                    Download(FALSE, 200, "application/pdf", TextPdf, 1)}]

InitRun ==
    /\ pc = "run"
    /\ sources \in Configs(MaxSources)
    /\ user_agent = ""
    /\ src = CHOOSE s \in Sources : TRUE
    /\ page = NoPage
    /\ entries = <<>>
    /\ seen = {}
    /\ k = 0
    /\ result = <<>>
    /\ ran = {}
    /\ requests = {}
    /\ done = 0
    /\ all_entries = <<>>
    /\ expected = <<>>
    /\ cur = 0
    /\ unique_links = {}
    /\ log = {}
    /\ served = <<>>
    /\ NoGeneration
    /\ NoExtraction

NextRun ==
    \/ RunScraper
    \/ FetchSource
    \/ FetchRss(Narrow)
    \/ FetchRejestrZmian(Narrow)
    \/ FetchHtmlList(Narrow)
    \/ FetchEntryDetails(Narrow)

SpecRun == InitRun /\ [][NextRun]_vars

\* run_scraper on a configuration of one source, with detail pages that hold
\* up to MaxAnchors anchors: "1.pdf" and "/sub/3.pdf?v=1" labelled with an
\* attachment word, each download raising or giving a PDF
Deep ==
    [Narrow EXCEPT
        !.n = MaxAnchors,
        !.anchors = {DetailAnchor(PdfHref, "other", FALSE),
                     DetailAnchor(Str("root", "sub", 3, "haspdf", FALSE), "keyword", FALSE)}]

InitEnrich == InitRun /\ Len(sources) = 1

NextEnrich ==
    \/ RunScraper
    \/ FetchSource
    \/ FetchRejestrZmian(Narrow) \/ FetchRss(Narrow) \/ FetchHtmlList(Narrow)
    \/ FetchEntryDetails(Deep)

SpecEnrich == InitEnrich /\ [][NextEnrich]_vars

(***************************************************************************)
(* ollama_generate (ollama_client.py).                                     *)
(***************************************************************************)
\* lines 29 and 53: (... or "").strip() of the text the body carries
Strip(body) == IF body = " answer\n" THEN "answer" ELSE body

Gave(value) == [how |-> "returned", value |-> value]
Raise(error) == [how |-> "raised", error |-> error]

\* the names the module binds (lines 5-10): the ones its import statements
\* bring in
ModuleNames == {"json", "Any", "requests", "BIPEntry"}

\* print(..., file=sys.stderr), lines 75, 77 and 83: evaluating the argument
\* looks the name sys up
PrintsToStderr == "sys" \in ModuleNames

\* the answers of the server: a 200 response with a body, an error status
\* with or without a JSON body, or no response at all
Bodies == {"", "answer", " answer\n"}
ErrorStatuses == {404, 500, 503}
Answers ==
    {Answer(200, TRUE, b) : b \in Bodies}
        \cup {Answer(st, j, "") : st \in ErrorStatuses, j \in BOOLEAN}
        \cup {Answer(0, FALSE, "")}
Servers == [generate : Answers, chat : Answers]

\* what a POST that does not return gives: raise_for_status raises HTTPError
\* holding the response (lines 27, 51); a failed connection raises
\* requests.ConnectionError, which is no HTTPError
PostError(answer) ==
    IF answer.status = 0 THEN Raise([type |-> "ConnectionError", status |-> 0])
    ELSE Raise([type |-> "HTTPError", status |-> answer.status])

OllamaUnchanged ==
    /\ UNCHANGED <<src, user_agent, page, entries, seen, k, result, ran, requests>>
    /\ UNCHANGED <<sources, done, all_entries, expected, cur, unique_links, log, served>>
    /\ UNCHANGED <<pdfVars, server>>

\* line 69 with lines 13-28: POST /api/generate answers 200
OllamaGenerateOk ==
    /\ pc = "generate"
    /\ server.generate.status = 200
    /\ calls' = Append(calls, "/api/generate")
    /\ outcome' = Gave(Strip(server.generate.body))
    /\ pc' = "ollama_done"
    /\ OllamaUnchanged

\* line 69 with line 27: raise_for_status raises HTTPError; line 70 catches it
OllamaGenerateHttpError ==
    /\ pc = "generate"
    /\ server.generate.status \in ErrorStatuses
    /\ calls' = Append(calls, "/api/generate")
    /\ outcome' = PostError(server.generate)
    /\ pc' = "ollama_except"
    /\ OllamaUnchanged

\* line 69 with line 26: the POST itself raises; line 70 does not catch it
OllamaGenerateNoResponse ==
    /\ pc = "generate"
    /\ server.generate.status = 0
    /\ calls' = Append(calls, "/api/generate")
    /\ outcome' = PostError(server.generate)
    /\ pc' = "ollama_done"
    /\ OllamaUnchanged

\* lines 71-79: the status is 404. The print of line 75 (or the call of
\* json() before it) raises inside the try, line 76 catches it, and the
\* print of line 77 raises NameError out of the handler unless sys is bound;
\* line 79 posts to /api/chat only after that print
OllamaNotFound ==
    /\ pc = "ollama_except"
    /\ outcome.error.status = 404
    /\ IF PrintsToStderr
       THEN /\ calls' = Append(calls, "/api/chat")
            /\ outcome' = IF server.chat.status = 200
                           THEN Gave(Strip(server.chat.body))
                           ELSE PostError(server.chat)
       ELSE /\ calls' = calls
            /\ outcome' = Raise([type |-> "NameError", status |-> 0])
    /\ pc' = "ollama_done"
    /\ OllamaUnchanged

\* lines 81-84: any other status. e.response is the response raise_for_status
\* stored, so line 83 prints, which raises NameError unless sys is bound;
\* line 84 re-raises the HTTPError only after that print
OllamaOtherStatus ==
    /\ pc = "ollama_except"
    /\ outcome.error.status # 404
    /\ outcome' = IF PrintsToStderr THEN outcome
                   ELSE Raise([type |-> "NameError", status |-> 0])
    /\ calls' = calls
    /\ pc' = "ollama_done"
    /\ OllamaUnchanged

OllamaGenerate ==
    \/ OllamaGenerateOk \/ OllamaGenerateHttpError \/ OllamaGenerateNoResponse
    \/ OllamaNotFound \/ OllamaOtherStatus

InitOllama ==
    /\ pc = "generate"
    /\ server \in Servers
    /\ calls = <<>>
    /\ outcome = [how |-> "none"]
    /\ src = CHOOSE s \in Sources : TRUE
    /\ user_agent = ""
    /\ page = NoPage
    /\ entries = <<>>
    /\ seen = {}
    /\ k = 0
    /\ result = <<>>
    /\ ran = {}
    /\ requests = {}
    /\ sources = <<>>
    /\ done = 0
    /\ all_entries = <<>>
    /\ expected = <<>>
    /\ cur = 0
    /\ unique_links = {}
    /\ log = {}
    /\ served = <<>>
    /\ NoExtraction

SpecOllama == InitOllama /\ [][OllamaGenerate]_vars

(***************************************************************************)
(* Properties of one call of fetch_source.                                 *)
(***************************************************************************)
Returned == pc = "returned"
Vias(batch) == {batch[i].via : i \in 1..Len(batch)}

\* C1 (as claimed): the link scan starts only with an empty batch, and a
\* returned batch never holds both a block entry and a link-scan entry.
C1_LinkScanOnlyWhenNothingFound ==
    /\ (pc = "rz_link" /\ k = 0 => entries = <<>>)
    /\ (Returned => ~({"block", "link"} \subseteq Vias(result)))

\* C2 (as claimed): no two entries of a returned batch have the same url.
C2_NoDuplicateUrls ==
    Returned =>
        \A i, j \in 1..Len(result) : i # j => result[i].url # result[j].url

\* C3 (as claimed): whatever max_entries value a source configures, the
\* returned batch is at most that long.
C3_CappedForEveryConfiguredValue ==
    Returned /\ src.max_set => Len(result) <= src.max_entries

\* C4 (as claimed): the scripts are scanned only when the page has a table
\* and no table has a body row.
C4_EscalationOnlyOnEmptyTable ==
    "scan" \in ran => page.tables >= 1 /\ ~page.body

\* C4 (amended): the scripts are scanned only when the page has no table at
\* all, or when no table has a row inside a tbody and no table has a row
\* without having a thead.
C4_EscalationOnlyWithoutTableOrRows ==
    "scan" \in ran =>
        page.tables = 0 \/ (~page.tbodyRows /\ ~page.headless)

\* the escalation fetched the remote data for a page whose table is empty
C4_Witness ==
    "ajax" \in ran /\ page.tables >= 1 /\ ~page.body

\* C5 (as claimed): when the page's tables have no body row, the escalation
\* is taken and no entry comes from the table strategy.
C5_EmptyTableEmitsNoStaticEntry ==
    page.tables >= 1 /\ ~page.body =>
        /\ (pc # "rz_fetch" => "scan" \in ran)
        /\ "static" \notin Vias(entries)

\* C6 (as claimed): no entry of the anchor-reading strategies has a url that
\* comes from an empty, fragment-only, javascript: or mailto: href.
C6_RejectedHrefsNeverEmitted ==
    Returned =>
        \A i \in 1..Len(result) :
            result[i].via \in {"static", "block", "link", "list"}
                => result[i].url.kind \notin {"empty", "frag", "js", "mailto"}

\* C8 (as claimed): every url taken from an href is absolute when it is
\* stored.
C8_UrlsAbsolute ==
    Returned =>
        \A i \in 1..Len(result) :
            result[i].url # EmptyStr => IsAbsolute(result[i].url)

\* C17 (as claimed): a feed entry's published is the parsed timestamp when
\* the item has a structured date, and the item's raw date text when it has
\* none; an item with raw date text never ends with published = None.
C17_FeedDateFallsBackToRawText ==
    Returned =>
        \A i \in 1..Len(result) :
            result[i].via = "feed" =>
                LET d == result[i].raw
                IN /\ d.published_parsed = "ok" => result[i].published = "iso"
                   /\ d.published_parsed = "none" /\ d.updated_parsed = "ok"
                        => result[i].published = "iso"
                   /\ d.published_parsed = "none" /\ d.updated_parsed = "none"
                        /\ (d.published \/ d.updated)
                        => result[i].published = "text"

\* C18 (as claimed): every entry of the plain list comes from an anchor
\* whose stripped text has 3 characters or more, no two entries share a url,
\* the batch is not longer than max_entries and no entry has attachments.
C18_ListTakesAnchorsWithText ==
    Returned /\ Vias(result) = {"list"} =>
        /\ \A i \in 1..Len(result) :
              /\ ~result[i].title.dflt /\ result[i].title.len >= 3
              /\ result[i].attachments = <<>>
        /\ \A i, j \in 1..Len(result) : i # j => result[i].url # result[j].url
        /\ Len(result) <= EffectiveMax(src)

\* C19 (as claimed): every request issued carries the User-Agent the
\* configuration names, or the program's default one when it names none.
C19_EveryRequestCarriesUserAgent ==
    \A r \in requests :
        r.ua = IF user_agent # "" THEN user_agent ELSE "BIP-Scraper/1.0 (Python)"

(***************************************************************************)
(* Properties of run_scraper.                                              *)
(***************************************************************************)
Finished == pc = "done"
WithoutAttachments(batch) ==
    [j \in 1..Len(batch) |-> [batch[j] EXCEPT !.attachments = <<>>]]
SourceIndex(name) == CHOOSE n \in 1..Len(SourceNames) : SourceNames[n] = name
NoLocator(s) == ~s.rss_url /\ ~s.list_url

\* C7 (as claimed): every entry run_scraper returns has a non-empty title
\* and a non-empty url.
C7_EntriesHaveTitleAndUrl ==
    Finished =>
        \A j \in 1..Len(all_entries) :
            all_entries[j].title.len > 0 /\ all_entries[j].url # EmptyStr

\* C9: no exception leaves run_scraper; what it returns is the batches that
\* fetch_source returned, in the order of the configuration and each in its
\* own order, whatever failed while listing or enriching.
C9_FailuresAreIsolated ==
    /\ pc # "crashed"
    /\ Finished =>
          /\ WithoutAttachments(all_entries) = expected
          /\ \A a, b \in 1..Len(all_entries) :
                a < b => SourceIndex(all_entries[a].source_name)
                            <= SourceIndex(all_entries[b].source_name)
          /\ \A j \in 1..Len(all_entries) :
                Logged("source", all_entries[j].source_name) \notin log

\* a finished run whose first source failed to list and whose second source
\* gave an entry that failed to enrich
C9_Witness ==
    /\ Finished
    /\ Logged("source", "A") \in log
    /\ \E j \in 1..Len(all_entries) :
          /\ all_entries[j].source_name = "B"
          /\ Logged("details", all_entries[j].url) \in log

\* C10 (as claimed): a configuration with a source that has neither rss_url
\* nor list_url is rejected: nothing is fetched and the run does not
\* complete.
C10_MissingLocatorIsFatal ==
    (\E j \in 1..Len(sources) : NoLocator(sources[j]))
        => requests = {} /\ ~Finished

(***************************************************************************)
(* Properties of extract_text_from_pdf.                                    *)
(***************************************************************************)
PdfReturned == pc = "pdf_return"
\* what pypdf gave: "" when it raised
DigitalLen == IF pdf_content.digital_raises THEN 0 ELSE pdf_content.digital
OcrInvoked == "ocr" \in tiers

\* C11 (as claimed): OCR is invoked exactly when the digital text has fewer
\* than 50 characters; when it is invoked and its output is longer than the
\* digital text the OCR output is returned, otherwise the digital text (what
\* is returned when OCR raises is left to C12).
C11_OcrOutputWinsWhenLonger ==
    PdfReturned =>
        /\ OcrInvoked <=> DigitalLen < 50
        /\ ~pdf_content.ocr_raises =>
              text = IF OcrInvoked /\ pdf_content.ocr > DigitalLen
                     THEN Text("ocr", pdf_content.ocr)
                     ELSE Text("digital", DigitalLen)

\* C11 (amended): OCR is invoked exactly when the digital text has fewer
\* than 50 characters; when it is invoked and ends without exception, its
\* whole output is returned if that output, stripped of surrounding white
\* space, is longer than the digital text, and the digital text otherwise.
C11_StrippedOcrOutputWinsWhenLonger ==
    PdfReturned =>
        /\ OcrInvoked <=> DigitalLen < 50
        /\ ~pdf_content.ocr_raises =>
              text = IF OcrInvoked /\ pdf_content.ocr_stripped > DigitalLen
                     THEN Text("ocr", pdf_content.ocr)
                     ELSE Text("digital", DigitalLen)
        /\ text = extract_text_from_pdf(pdf_content)

\* digital text of 40 characters and OCR output of 120: the OCR output is
\* returned
C11_Witness ==
    /\ PdfReturned
    /\ DigitalLen = 40 /\ pdf_content.ocr_stripped = 120
    /\ OcrInvoked /\ text.from = "ocr"

\* C12: no exception leaves extract_text_from_pdf; when both tiers raise the
\* placeholder is returned; when the digital tier gave 1 to 49 characters
\* and OCR raises, those characters are returned.
C12_ExtractionNeverRaises ==
    /\ pc # "raised"
    /\ PdfReturned /\ pdf_content.ocr_raises =>
          /\ pdf_content.digital_raises => text.from = "placeholder"
          /\ DigitalLen \in 1..49 => text = Text("digital", DigitalLen)

\* both tiers raised and the placeholder came back
C12_Witness ==
    /\ PdfReturned
    /\ pdf_content.digital_raises /\ pdf_content.ocr_raises
    /\ tiers = {"digital", "ocr"}
    /\ text.from = "placeholder"

(***************************************************************************)
(* Properties of one call of fetch_entry_details.                          *)
(***************************************************************************)
InDetailLoop == pc = "det_loop"
Attachments == result[cur].attachments
\* the i-th anchor read: its absolute URL, whether it is a candidate, whether
\* no earlier candidate has its URL, whether its download gave a PDF
Resolved(i) == UrlJoin(result[cur].url, served[i].anchor.href)
Qualifies(i) ==
    \/ EndsWithPdf(Resolved(i))
    \/ served[i].anchor.text = "keyword" /\ ContainsPdf(served[i].anchor.href)
FirstWithUrl(i) ==
    \A j \in 1..(i - 1) : Qualifies(j) => Resolved(j) # Resolved(i)
DownloadedPdf(i) ==
    /\ Fetchable(Resolved(i))
    /\ ~served[i].answer.raises
    /\ served[i].answer.status = 200
    /\ served[i].answer.ctype = "application/pdf"
Succeeds(i) == Qualifies(i) /\ FirstWithUrl(i) /\ DownloadedPdf(i)
\* the anchors that succeed among the first n, in page order
RECURSIVE Succeeding(_)
Succeeding(n) ==
    IF n = 0 THEN <<>>
    ELSE IF Succeeds(n) THEN Append(Succeeding(n - 1), n) ELSE Succeeding(n - 1)

C14_FailedCandidateIsSkipped ==
    /\ [](InDetailLoop =>
            /\ Len(result) = 1 /\ k = Len(served)
            /\ Attachments =
                  [j \in 1..Len(Succeeding(k)) |->
                      Attachment(served[Succeeding(k)[j]].anchor,
                                 Resolved(Succeeding(k)[j]),
                                 served[Succeeding(k)[j]].answer)])
    /\ [][InDetailLoop /\ pc' # "det_loop" =>
            pc' = "enrich" /\ UNCHANGED <<result, requests, log, k>>]_vars

\* the first candidate's download raised, the second one's gave a PDF
C14_Witness ==
    /\ InDetailLoop
    /\ Len(served) = 2
    /\ Qualifies(1) /\ served[1].answer.raises
    /\ Succeeds(2)
    /\ Len(Attachments) = 1 /\ Attachments[1].url = Resolved(2)

\* C16: the text_content of an attachment is the extracted text when that
\* has at most 5000 characters, and its first 5000 characters followed by
\* the marker otherwise.
C16_TextCappedWithMarker ==
    InDetailLoop =>
        \A j \in 1..Len(Attachments) :
            j <= Len(Succeeding(k)) =>
                LET raw == extract_text_from_pdf(served[Succeeding(k)[j]].answer.pdf)
                    stored == Attachments[j].text_content
                IN IF raw.len <= 5000
                   THEN stored = raw
                   ELSE stored = [raw EXCEPT !.len = 5000, !.marker = TRUE]

\* a text of 400 characters stored as it is and one of 6000 stored cut
C16_Witness ==
    /\ InDetailLoop
    /\ Len(Attachments) = 2
    /\ served[1].answer.pdf.digital = 400 /\ served[2].answer.pdf.digital = 6000
    /\ Attachments[1].text_content = Text("digital", 400)
    /\ Attachments[2].text_content.len = 5000 /\ Attachments[2].text_content.marker

\* C21: a call of fetch_entry_details on an entry whose url ends in .pdf
\* returns at once: it issues no request, reports nothing and leaves the
\* entry, its attachments included, as it was.
C21_PdfEntryIsSkipped ==
    [][pc = "details" /\ EndsWithPdf(result[cur].url) =>
          /\ pc' = "enrich"
          /\ UNCHANGED <<result, requests, log, served, unique_links>>]_vars

\* the call on the entry "http://host/sub/1.pdf" has returned
C21_Witness ==
    /\ pc = "enrich"
    /\ cur = 1 /\ EndsWithPdf(result[1].url)
    /\ requests = {} /\ result[1].attachments = <<>>

(***************************************************************************)
(* Properties of the table strategy of fetch_rejestr_zmian.                *)
(***************************************************************************)
Min(a, b) == IF a <= b THEN a ELSE b
\* a page with N >= 1 table rows; every row read had an anchor with a title
\* of 5 characters or more and a date cell
RowsAsClaimed ==
    /\ page.tables >= 1 /\ page.trs >= 1
    /\ ran \cap {"no_anchor", "short_title", "no_date"} = {}

\* C15 (as claimed): such a page gives exactly min(N, max_entries) entries,
\* with unique URLs.
C15_TableGivesMinOfRowsAndCap ==
    Returned /\ RowsAsClaimed =>
        /\ Len(result) = Min(page.trs, EffectiveMax(src))
        /\ \A i, j \in 1..Len(result) : i # j => result[i].url # result[j].url

\* C15 (amended): such a page gives exactly min(N, max_entries) entries from
\* the table, with unique URLs, when the tables were not taken for an empty
\* shell and every row read had an href that the filter of the table
\* strategy accepts and that resolves to a URL no earlier row had.
C15_TableGivesMinOfAcceptedRowsAndCap ==
    Returned /\ RowsAsClaimed /\ "scan" \notin ran
             /\ ran \cap {"href_rejected", "url_seen"} = {} =>
        /\ Len(result) = Min(page.trs, EffectiveMax(src))
        /\ Vias(result) = {"static"}
        /\ \A i, j \in 1..Len(result) : i # j => result[i].url # result[j].url

\* two rows and max_entries 1: one entry
C15_Witness ==
    /\ Returned /\ RowsAsClaimed /\ "scan" \notin ran
    /\ ran \cap {"href_rejected", "url_seen"} = {}
    /\ page.trs = 2 /\ src.max_set /\ src.max_entries = 1
    /\ Len(result) = 1 /\ Vias(result) = {"static"}
(***************************************************************************)
(* Properties of the enrichment of a batch.                                *)
(***************************************************************************)
Enriching == pc \in {"enrich", "details", "det_loop"}
IsPrefix(a, b) == Len(a) <= Len(b) /\ SubSeq(b, 1, Len(a)) = a

\* the batch fetch_source returned last, as run_scraper recorded it
LastBatch == SubSeq(expected, Len(expected) - Len(result) + 1, Len(expected))

\* C22: every entry of a batch fetch_source returns has no attachments; while
\* the batch is enriched, a step changes no entry's title, url, published
\* or source_name and only appends to its attachments, so that the batch
\* stays the returned one but for attachments; entries already in
\* all_entries stay as they are.
C22_EnrichmentOnlyAppendsAttachments ==
    /\ [](Returned => \A j \in 1..Len(result) : result[j].attachments = <<>>)
    /\ [](Enriching =>
            /\ Len(result) <= Len(expected)
            /\ \A j \in 1..Len(result) :
                  /\ result[j].title = LastBatch[j].title
                  /\ result[j].url = LastBatch[j].url
                  /\ result[j].published = LastBatch[j].published
                  /\ result[j].source_name = LastBatch[j].source_name)
    /\ [][Enriching /\ pc' \in {"enrich", "details", "det_loop"} =>
            /\ Len(result') = Len(result)
            /\ \A j \in 1..Len(result) :
                  IsPrefix(result[j].attachments, result'[j].attachments)]_vars
    /\ [][IsPrefix(all_entries, all_entries')]_vars

\* an entry that left fetch_source without attachments has a second
\* attachment behind its first one
C22_Witness ==
    /\ Enriching
    /\ \E j \in 1..Len(result) :
          /\ Len(result[j].attachments) = 2
          /\ result[j].attachments[1].url # result[j].attachments[2].url
          /\ result[j].title = LastBatch[j].title
          /\ LastBatch[j].attachments = <<>>

(***************************************************************************)
(* Properties of ollama_generate.                                          *)
(***************************************************************************)
OllamaDone == pc = "ollama_done"

\* C20 (as claimed): /api/generate is posted to first; when it answers 404
\* the call posts to /api/chat next and gives its caller what that call
\* gave; on any other HTTP error it raises that error without posting to
\* /api/chat.
C20_ChatFallbackOnlyOn404 ==
    OllamaDone =>
        /\ calls # <<>> /\ calls[1] = "/api/generate"
        /\ server.generate.status = 404 =>
              /\ calls = <<"/api/generate", "/api/chat">>
              /\ outcome = IF server.chat.status = 200
                            THEN Gave(Strip(server.chat.body))
                            ELSE PostError(server.chat)
        /\ server.generate.status \in ErrorStatuses \ {404} =>
              /\ calls = <<"/api/generate">>
              /\ outcome = PostError(server.generate)

====
